---- MODULE Spec2Model ----
(***************************************************************************)
(* The foreign-scene conversion layer of Assimp-rs: the post-processing    *)
(* flag set aiPostProcessSteps (src/src/postprocess.rs) and the two        *)
(* conversions aiImportFileToMesh and aiImportFileToMeshes                 *)
(* (src/src/cimport.rs), which walk the scene returned by the external     *)
(* import library and copy it into owned Mesh values.                      *)
(*                                                                         *)
(* The external library is not part of the repository.  What it returns   *)
(* is an input: a null handle, or a scene whose content the model draws    *)
(* from small sets.  The library fixes the content of a scene at import;   *)
(* a conversion reads every location of it at most once, so the model      *)
(* draws the content of a location when it is first read and records it    *)
(* in `scene`.  The behaviours are those of drawing the whole scene at     *)
(* import.                                                                 *)
(***************************************************************************)
EXTENDS Integers, Sequences, FiniteSets, TLC

(***************************************************************************)
(* Bounds of the model.                                                    *)
(***************************************************************************)
MaxMeshes == 3       \* a scene holds at most MaxMeshes submeshes
MaxVerts == 4        \* ... which hold at most MaxVerts vertices together
MaxFaces == 1        \* ... and at most MaxFaces faces together
NumSampleBits == 5   \* how many of the 32 flag bits the flag inputs vary
MaxWideMeshes == 3   \* submeshes of a scene in the offset arithmetic
MaxWideFaces == 2    \* faces of a submesh in the face range

(***************************************************************************)
(* aiPostProcessSteps: a u32 value.  The model holds a u32 as its two      *)
(* 16-bit halves <<high, low>>, that is the value high * 2^16 + low.       *)
(***************************************************************************)
U32(high, low) == <<high, low>>

None == U32(0, 0)                           \* value: 0x0
CalcTangentSpace == U32(0, 1)               \* value: 0x1
JoinIdenticalVertices == U32(0, 2)          \* value: 0x2
MakeLeftHanded == U32(0, 4)                 \* value: 0x4
Triangulate == U32(0, 8)                    \* value: 0x8
RemoveComponent == U32(0, 16)               \* value: 0x10
GenNormals == U32(0, 32)                    \* value: 0x20
GenSmoothNormals == U32(0, 64)              \* value: 0x40
SplitLargeMeshes == U32(0, 128)             \* value: 0x80
PreTransformVertices == U32(0, 256)         \* value: 0x100
LimitBoneWeights == U32(0, 512)             \* value: 0x200
ValidateDataStructure == U32(0, 1024)       \* value: 0x400
ImproveCacheLocality == U32(0, 2048)        \* value: 0x800
RemoveRedundantMaterials == U32(0, 4096)    \* value: 0x1000
FixInfacingNormals == U32(0, 8192)          \* value: 0x2000
PopulateArmatureData == U32(0, 16384)       \* value: 0x4000
SortByPType == U32(0, 32768)                \* value: 0x8000
FindDegenerates == U32(1, 0)                \* value: 0x10000
FindInvalidData == U32(2, 0)                \* value: 0x20000
GenUVCoords == U32(4, 0)                    \* value: 0x40000
TransformUVCoords == U32(8, 0)              \* value: 0x80000
FindInstances == U32(16, 0)                 \* value: 0x100000
OptimizeMeshes == U32(32, 0)                \* value: 0x200000
OptimizeGraph == U32(64, 0)                 \* value: 0x400000
FlipUVs == U32(128, 0)                      \* value: 0x800000
FlipWindingOrder == U32(256, 0)             \* value: 0x1000000
SplitByBoneCount == U32(512, 0)             \* value: 0x2000000
Debone == U32(1024, 0)                      \* value: 0x4000000
GlobalScale == U32(2048, 0)                 \* value: 0x8000000
EmbedTextures == U32(4096, 0)               \* value: 0x10000000
ForceGenNormals == U32(8192, 0)             \* value: 0x20000000
DropNormals == U32(16384, 0)                \* value: 0x40000000
\* A last flag on the bit of the flag before it.
GenBoundingBoxesOnBit30 == U32(16384, 0)
GenBoundingBoxes == U32(32768, 0)           \* value: 0x80000000

RECURSIVE Pow2(_)
Pow2(k) == IF k = 0 THEN 1 ELSE 2 * Pow2(k - 1)

\* x | y and x & y on the n low bits of two numbers.
RECURSIVE OrBits(_, _, _)
OrBits(x, y, n) ==
    IF n = 0 THEN 0
    ELSE (IF x % 2 = 1 \/ y % 2 = 1 THEN 1 ELSE 0) + 2 * OrBits(x \div 2, y \div 2, n - 1)
RECURSIVE AndBits(_, _, _)
AndBits(x, y, n) ==
    IF n = 0 THEN 0
    ELSE (IF x % 2 = 1 /\ y % 2 = 1 THEN 1 ELSE 0) + 2 * AndBits(x \div 2, y \div 2, n - 1)

\* A union that keeps only the bits both operands hold.
BitOrAsAnd(a, b) == U32(AndBits(a[1], b[1], 16), AndBits(a[2], b[2], 16))

\* A union that keeps the left operand alone, and one that keeps the right.
BitOrKeepLeft(a, b) == a
BitOrKeepRight(a, b) == b

\* impl BitOr: value: self.value | rhs.value
BitOr(a, b) == U32(OrBits(a[1], b[1], 16), OrBits(a[2], b[2], 16))

\* impl BitAnd: value: self.value & rhs.value
BitAnd(a, b) == U32(AndBits(a[1], b[1], 16), AndBits(a[2], b[2], 16))

\* A test that passes when any bit of the flag is present.
setAny(a, flag) == BitAnd(a, flag) /= None

\* A test that wants the flag to hold a bit.
setNonEmpty(a, flag) == flag /= None /\ BitAnd(a, flag) = flag

\* aiPostProcessSteps::set: self & flag == flag
set(a, flag) == BitAnd(a, flag) = flag

(***************************************************************************)
(* impl Debug for aiPostProcessSteps.  The rendering is the sequence of    *)
(* the strings the write! calls put out; the text is their concatenation.  *)
(***************************************************************************)
\* The flags fmt tests, with the name it writes for each, in its order.
DebugOrder ==
    <<
       <<"CalcTangentSpace", CalcTangentSpace>>, <<"JoinIdenticalVertices", JoinIdenticalVertices>>,
       <<"MakeLeftHanded", MakeLeftHanded>>, <<"Triangulate", Triangulate>>,
       <<"RemoveComponent", RemoveComponent>>, <<"GenNormals", GenNormals>>,
       <<"GenSmoothNormals", GenSmoothNormals>>, <<"SplitLargeMeshes", SplitLargeMeshes>>,
       <<"PreTransformVertices", PreTransformVertices>>, <<"LimitBoneWeights", LimitBoneWeights>>,
       <<"ValidateDataStructure", ValidateDataStructure>>, <<"ImproveCacheLocality", ImproveCacheLocality>>,
       <<"RemoveRedundantMaterials", RemoveRedundantMaterials>>, <<"FixInfacingNormals", FixInfacingNormals>>,
       <<"PopulateArmatureData", PopulateArmatureData>>, <<"SortByPType", SortByPType>>,
       <<"FindDegenerates", FindDegenerates>>, <<"FindInvalidData", FindInvalidData>>,
       <<"GenUVCoords", GenUVCoords>>, <<"TransformUVCoords", TransformUVCoords>>,
       <<"FindInstances", FindInstances>>, <<"OptimizeMeshes", OptimizeMeshes>>,
       <<"OptimizeGraph", OptimizeGraph>>, <<"FlipUVs", FlipUVs>>,
       <<"FlipWindingOrder", FlipWindingOrder>>, <<"SplitByBoneCount", SplitByBoneCount>>,
       <<"Debone", Debone>>, <<"GlobalScale", GlobalScale>>,
       <<"EmbedTextures", EmbedTextures>>, <<"ForceGenNormals", ForceGenNormals>>,
       <<"DropNormals", DropNormals>>, <<"GenBoundingBoxes", GenBoundingBoxes>>
    >>

Separator == " | "

\* A write that puts the separator before every name.
WriteFlagSeparatorAlways(out, first, name) == out \o <<Separator, name>>

\* if !first { write!(f, " | ")?; }  write!(f, name)?;
WriteFlag(out, first, name) ==
    IF ~first THEN out \o <<Separator, name>> ELSE out \o <<name>>

\* The chain of `if self.set(Self::X) { ...; first = false; ... }` from the
\* k-th flag on, `first` and the output so far carried along.
RECURSIVE DebugFlags(_, _, _, _)
DebugFlags(v, k, first, out) ==
    IF k > Len(DebugOrder) THEN out
    ELSE IF set(v, DebugOrder[k][2])
         THEN DebugFlags(v, k + 1, FALSE, WriteFlag(out, first, DebugOrder[k][1]))
         ELSE DebugFlags(v, k + 1, first, out)

\* A rendering without the branch for the empty set.
DebugWithoutNone(v) == DebugFlags(v, 1, TRUE, <<>>)

\* fmt: if *self == Self::None { write!(f, "None") } else { the chain }
Debug(v) ==
    IF v = None THEN <<"None">> ELSE DebugFlags(v, 1, TRUE, <<>>)

(***************************************************************************)
(* The state.                                                              *)
(***************************************************************************)
VARIABLES
    op,          \* the conversion that was called
    file,        \* its argument: the path, a sequence of bytes
    pc,          \* the position of the call
    imports,     \* the calls of the external aiImportFile so far: <<pFile, pFlags>>
    ptr,         \* the pointer the import returned
    scene,       \* the foreign scene, as far as it has been read
    mem,         \* the memory of the scene: "none", "live", "freed" or "reused"
    releases,    \* the calls of the external aiReleaseImport so far: the pointers
    derefs,      \* number of reads of foreign memory so far
    invalid,     \* number of those reads that hit absent or out-of-bounds memory
    mesh_count, j, vertex_count, face_count, i, ind_base,    \* locals
    pts, normals, tpt, faces,                                \* locals (tpt is uvs in aiImportFileToMeshes)
    mn, mx, meshes,                                          \* locals of aiImportFileToMeshes
    result,      \* what the call returned
    fa, fb, fc,  \* flag-set operands
    fop, fr,     \* the flag operation applied last and its result
    ft,          \* the result of set
    fs,          \* the output of fmt
    vcounts,     \* offset arithmetic: the vertex counts of the submeshes, each a u32
    sub,         \* ... the submesh the walk is at
    base32,      \* ... ind_base, a u32
    sum,         \* ... the sum of the vertex counts so far, of any size
    emitted,     \* ... the index emitted last, a u32
    wrapped,     \* ... whether an addition has wrapped
    opc          \* ... the position of the walk

convVars == <<op, file, pc, imports, ptr, scene, mem, releases, derefs, invalid,
              mesh_count, j, vertex_count, face_count, i, ind_base,
              pts, normals, tpt, faces, mn, mx, meshes, result>>
flagVars == <<fa, fb, fc, fop, fr, ft, fs>>
offVars == <<vcounts, sub, base32, sum, emitted, wrapped, opc>>
vars == <<convVars, flagVars, offVars>>

(***************************************************************************)
(* Values.                                                                 *)
(***************************************************************************)
\* Option<T>: None is the empty sequence, Some(x) the sequence of x alone.
NoneOpt == <<>>

\* A Some that comes out as None.
SomeDropped(x) == <<>>

Some(x) == <<x>>

\* The paths the conversions are called with: two paths, and one with an
\* interior NUL byte (0).  What the library makes of a path is its own matter.
Files == {<<109, 46, 111>>, <<120>>, <<109, 0, 111>>}

\* A conversion to a C string that lets every path through.
HasInteriorNulNever(pFile) == FALSE

\* CString::new(pFile) fails on an interior NUL byte, and unwrap() panics.
HasInteriorNul(pFile) == \E k \in 1..Len(pFile) : pFile[k] = 0

\* What the foreign arrays hold.  The conversions copy the vectors without
\* looking at them, so a vector is named by its place: submesh, vertex, array.
mVertices(jj, ii) == <<jj, ii, 0>>
mNormals(jj, ii) == <<jj, ii, 1>>
mTextureCoords0(jj, ii) == <<jj, ii, 2>>
GarbageVector == <<-1, -1, -1>>

\* aiVector3D::xy(): the first two components.
xy(v) == <<v[1], v[2]>>

\* MeshFace::new(a, b, c)
MeshFace(a, b, c) == <<a, b, c>>

\* The faces a submesh of nv vertices may hold: two triangles, and a line.
\* Triangulate leaves line and point primitives as they are.
Min2(x, y) == IF x < y THEN x ELSE y
Max2(x, y) == IF x > y THEN x ELSE y
FaceChoices(nv) ==
    IF nv = 0 THEN {}
    ELSE { [mNumIndices |-> 3, mIndices |-> <<0, Min2(1, nv - 1), Min2(2, nv - 1)>>],
           [mNumIndices |-> 3, mIndices |-> <<nv - 1, Max2(nv - 2, 0), Max2(nv - 3, 0)>>],
           [mNumIndices |-> 2, mIndices |-> <<0, nv - 1>>] }

\* A read of foreign memory ends in a value, or the process dies.
Value(v) == [crash |-> FALSE, val |-> v]
CrashVector == [crash |-> TRUE, val |-> GarbageVector]
CrashIndex == [crash |-> TRUE, val |-> 0]

\* *mesh.mNormals.add(i): mNormals is null when the submesh has no normals,
\* and the read is then undefined: the process dies or reads whatever is there.
ReadNormal(jj, ii) ==
    IF ~scene.mNormalsNull THEN {Value(mNormals(jj, ii))}
    ELSE {CrashVector, Value(GarbageVector)}

\* *mesh.mTextureCoords[0].add(i): channel 0 is null when the submesh has no
\* UV channel, and the read is then undefined.
ReadUV(jj, ii) ==
    IF ~scene.mTextureCoords0Null THEN {Value(mTextureCoords0(jj, ii))}
    ELSE {CrashVector, Value(GarbageVector)}

\* *face.mIndices.add(k): the array holds mNumIndices indices; a read past
\* its end is undefined: the process dies or reads whatever follows the array
\* (here a value that is a vertex of the submesh, or one that is not).
ReadIndex(face, k, nv) ==
    IF k < face.mNumIndices THEN {Value(face.mIndices[k + 1])}
    ELSE {CrashIndex, Value(0), Value(nv)}

\* The count of a copy that looks at channel 0 before it reads it.
InvalidVertexReadsUVChecked == IF scene.mNormalsNull THEN 1 ELSE 0

\* How many of the reads of one vertex, and of one face, are of absent memory.
InvalidVertexReads ==
    (IF scene.mNormalsNull THEN 1 ELSE 0) + (IF scene.mTextureCoords0Null THEN 1 ELSE 0)
InvalidIndexReads(face) == IF face.mNumIndices < 3 THEN 3 - face.mNumIndices ELSE 0

\* A copy that takes the first vertex of the submesh every time.
PushPointFirst(ps, jj, ii) == Append(ps, mVertices(jj, 0))

\* A copy that pushes the position twice.
PushPointTwice(ps, jj, ii) == Append(Append(ps, mVertices(jj, ii)), mVertices(jj, ii))

\* pts.push(*mesh.mVertices.add(i))
PushPoint(ps, jj, ii) == Append(ps, mVertices(jj, ii))

\* The scene of a null handle: nothing.
NoScene ==
    [mNumMeshes |-> 0, mNormalsNull |-> TRUE, mTextureCoords0Null |-> TRUE, mMeshes |-> <<>>]

\* What the external aiImportFile may return for a file: NULL, or a scene.  The normals
\* and UV channel 0 of a scene are present in all its submeshes or null in all.
FreshOutcomes ==
    {[ptr |-> "null", scene |-> NoScene]} \cup
    {[ptr |-> "scene",
      scene |-> [mNumMeshes |-> n, mNormalsNull |-> nn, mTextureCoords0Null |-> tn,
                 mMeshes |-> <<>>]] :
        n \in 0..MaxMeshes, nn \in BOOLEAN, tn \in BOOLEAN}

\* What the external aiImportFile returns: for the first import one of the
\* outcomes above, and for a file it has imported before what it returned
\* then (the file stays as it is, and none of the flags the conversions differ
\* in changes the positions or the faces).
ImportOutcomes ==
    IF imports = <<>> THEN FreshOutcomes ELSE {[ptr |-> ptr, scene |-> scene]}

\* A request that leaves out the UV generation.
ToMeshesFlagsNoUV == BitOr(Triangulate, GenSmoothNormals)

\* An import that is made a second time.
aiImportFileRetried(pFile, pFlags) ==
    IF \E k \in 1..Len(pFile) : pFile[k] = 0
    THEN /\ pc' = "panicked"
         /\ UNCHANGED <<imports, ptr, scene, mem>>
    ELSE /\ imports' = Append(Append(imports, <<pFile, pFlags>>), <<pFile, pFlags>>)
         /\ \E o \in ImportOutcomes :
                /\ ptr' = o.ptr /\ scene' = o.scene
                /\ mem' = IF o.ptr = "null" THEN "none" ELSE "live"
         /\ pc' = "null_check"

\* The flags the two conversions pass to aiImportFile.
ToMeshFlags == BitOr(BitOr(BitOr(Triangulate, GenSmoothNormals), GenUVCoords), FlipUVs)
ToMeshesFlags == BitOr(BitOr(Triangulate, GenSmoothNormals), GenUVCoords)

\* aiImportFile(pFile, pFlags): the CString conversion, then the external call.
aiImportFile(pFile, pFlags) ==
    IF HasInteriorNul(pFile)
    THEN /\ pc' = "panicked"
         /\ UNCHANGED <<imports, ptr, scene, mem>>
    ELSE /\ imports' = Append(imports, <<pFile, pFlags>>)
         /\ \E o \in ImportOutcomes :
                /\ ptr' = o.ptr /\ scene' = o.scene
                /\ mem' = IF o.ptr = "null" THEN "none" ELSE "live"
         /\ pc' = "null_check"

\* A null check that lets every pointer through.
IsNullNever(p) == FALSE

\* ptr.is_null()
IsNull(p) == p = "null"

\* A release that is made twice.
aiReleaseImportTwice(pScene) ==
    releases' = releases \o <<pScene, pScene>> /\ mem' = "freed"

\* A release that is left out.
aiReleaseImportSkipped(pScene) == releases' = releases /\ mem' = mem

\* aiReleaseImport(pScene): the external call.  The scene is stable until
\* then; the library frees it.
aiReleaseImport(pScene) ==
    releases' = Append(releases, pScene) /\ mem' = "freed"

\* The vertices and the faces of the submeshes read so far.
RECURSIVE SumVertices(_)
SumVertices(ms) ==
    IF ms = <<>> THEN 0 ELSE ms[1].mNumVertices + SumVertices(Tail(ms))
RECURSIVE SumFaces(_)
SumFaces(ms) ==
    IF ms = <<>> THEN 0 ELSE ms[1].mNumFaces + SumFaces(Tail(ms))

\* A submesh record read from the scene: mNumVertices and mNumFaces, within
\* what the bounds leave.  A submesh without vertices has no faces.
MeshRecords ==
    {[mNumVertices |-> nv, mNumFaces |-> nf, mFaces |-> <<>>] :
        nv \in 0..(MaxVerts - SumVertices(scene.mMeshes)),
        nf \in 0..(MaxFaces - SumFaces(scene.mMeshes))} \
    {[mNumVertices |-> 0, mNumFaces |-> nf, mFaces |-> <<>>] : nf \in 1..MaxFaces}

\* What the scene holds at a place is read as it is recorded, once it is: the
\* record of submesh jj, the face ii of submesh jj, and the records with x in.
MeshRecordAt(jj) ==
    IF jj < Len(scene.mMeshes) THEN {scene.mMeshes[jj + 1]} ELSE MeshRecords
FaceAt(jj, ii, nv) ==
    IF ii < Len(scene.mMeshes[jj + 1].mFaces)
    THEN {scene.mMeshes[jj + 1].mFaces[ii + 1]}
    ELSE FaceChoices(nv)
Recorded(seq, k, x) == IF k < Len(seq) THEN seq ELSE Append(seq, x)

(***************************************************************************)
(* aiImportFileToMesh: the flattened conversion.                           *)
(***************************************************************************)
ToMesh == "aiImportFileToMesh"
ToMeshes == "aiImportFileToMeshes"

flagUnchanged == UNCHANGED flagVars
offUnchanged == UNCHANGED offVars
externUnchanged == UNCHANGED <<imports, ptr, mem, releases>>
loopUnchanged == UNCHANGED <<mesh_count, j, vertex_count, face_count, i, ind_base>>
outUnchanged == UNCHANGED <<pts, normals, tpt, faces, mn, mx, meshes, result>>

\* lines 56-66: the empty accumulators, and the import
ToMesh_Import ==
    /\ op = ToMesh /\ pc = "start"
    /\ pts' = <<>> /\ tpt' = <<>> /\ faces' = <<>> /\ normals' = <<>>
    /\ aiImportFile(file, ToMeshFlags)
    /\ UNCHANGED <<op, file, releases, derefs, invalid, mn, mx, meshes, result>>
    /\ loopUnchanged /\ flagUnchanged /\ offUnchanged

\* A null check that releases the scene before the walk.
ToMesh_NullCheckReleasing ==
    /\ op = ToMesh /\ pc = "null_check"
    /\ IF IsNull(ptr)
       THEN /\ result' = NoneOpt
            /\ pc' = "returned"
            /\ UNCHANGED <<mem, releases>>
       ELSE /\ pc' = "mesh_count"
            /\ aiReleaseImport(ptr)
            /\ UNCHANGED result
    /\ UNCHANGED <<op, file, imports, ptr, scene, derefs, invalid,
                   pts, normals, tpt, faces, mn, mx, meshes>>
    /\ loopUnchanged /\ flagUnchanged /\ offUnchanged

\* lines 67-69: if ptr.is_null() { return None; }
ToMesh_NullCheck ==
    /\ op = ToMesh /\ pc = "null_check"
    /\ IF IsNull(ptr)
       THEN /\ result' = NoneOpt
            /\ pc' = "returned"
       ELSE /\ pc' = "mesh_count"
            /\ UNCHANGED result
    /\ UNCHANGED <<op, file, scene, derefs, invalid, pts, normals, tpt, faces, mn, mx, meshes>>
    /\ externUnchanged /\ loopUnchanged /\ flagUnchanged /\ offUnchanged

\* lines 71-74: mesh_count = (*ptr).mNumMeshes; ind_base = 0
ToMesh_MeshCount ==
    /\ op = ToMesh /\ pc = "mesh_count"
    /\ mesh_count' = scene.mNumMeshes
    /\ derefs' = derefs + 1
    /\ ind_base' = 0
    /\ j' = 0
    /\ pc' = "mesh_loop"
    /\ UNCHANGED <<op, file, scene, invalid, vertex_count, face_count, i>>
    /\ externUnchanged /\ outUnchanged /\ flagUnchanged /\ offUnchanged

\* lines 76-79: the head of for j in 0..mesh_count, and the submesh record
ToMesh_MeshLoop ==
    /\ op = ToMesh /\ pc = "mesh_loop"
    /\ IF j < mesh_count
       THEN \E m \in MeshRecordAt(j) :
            /\ scene' = [scene EXCEPT !.mMeshes = Recorded(@, j, m)]
            /\ derefs' = derefs + 3
            /\ vertex_count' = m.mNumVertices
            /\ face_count' = m.mNumFaces
            /\ i' = 0
            /\ pc' = "vertex_loop"
       ELSE /\ pc' = "release"
            /\ UNCHANGED <<scene, derefs, vertex_count, face_count, i>>
    /\ UNCHANGED <<op, file, invalid, mesh_count, j, ind_base>>
    /\ externUnchanged /\ outUnchanged /\ flagUnchanged /\ offUnchanged

\* lines 83-87: for i in 0..vertex_count: the position, the normal, the UV
ToMesh_VertexLoop ==
    /\ op = ToMesh /\ pc = "vertex_loop"
    /\ IF i < vertex_count
       THEN \E n \in ReadNormal(j, i), t \in ReadUV(j, i) :
            /\ derefs' = derefs + 3
            /\ invalid' = invalid + InvalidVertexReads
            /\ IF n.crash \/ t.crash
               THEN /\ pc' = "crashed"
                    /\ UNCHANGED <<pts, normals, tpt, i>>
               ELSE /\ pts' = PushPoint(pts, j, i)
                    /\ normals' = Append(normals, n.val)
                    /\ tpt' = Append(tpt, xy(t.val))
                    /\ i' = i + 1
                    /\ pc' = "vertex_loop"
       ELSE /\ i' = 0
            /\ pc' = "face_loop"
            /\ UNCHANGED <<derefs, invalid, pts, normals, tpt>>
    /\ UNCHANGED <<op, file, scene, mesh_count, j, vertex_count, face_count, ind_base,
                   faces, mn, mx, meshes, result>>
    /\ externUnchanged /\ flagUnchanged /\ offUnchanged

\* line 97: ind_base += vertex_count as u32.  The vertex counts of the model
\* are far below 2^32, so the u32 sum is the sum.
NextIndBase(base, count) == base + count

\* An index that is copied without the offset.
RebaseDropped(index, base) == index

\* lines 91-93: *face.mIndices.add(k) + ind_base
Rebase(index, base) == index + base

\* lines 89-97: for i in 0..face_count: the face and its three indices; after
\* the last face, the offset moves past the submesh
ToMesh_FaceLoop ==
    /\ op = ToMesh /\ pc = "face_loop"
    /\ IF i < face_count
       THEN \E face \in FaceAt(j, i, vertex_count) :
            \E a \in ReadIndex(face, 0, vertex_count),
               b \in ReadIndex(face, 1, vertex_count),
               c \in ReadIndex(face, 2, vertex_count) :
            /\ scene' = [scene EXCEPT !.mMeshes[j + 1].mFaces = Recorded(@, i, face)]
            /\ derefs' = derefs + 4
            /\ invalid' = invalid + InvalidIndexReads(face)
            /\ IF a.crash \/ b.crash \/ c.crash
               THEN /\ pc' = "crashed"
                    /\ UNCHANGED <<faces, i>>
               ELSE /\ faces' = Append(faces, MeshFace(Rebase(a.val, ind_base),
                                                       Rebase(b.val, ind_base),
                                                       Rebase(c.val, ind_base)))
                    /\ i' = i + 1
                    /\ pc' = "face_loop"
            /\ UNCHANGED <<j, ind_base>>
       ELSE /\ ind_base' = NextIndBase(ind_base, vertex_count)
            /\ j' = j + 1
            /\ pc' = "mesh_loop"
            /\ UNCHANGED <<scene, derefs, invalid, faces, i>>
    /\ UNCHANGED <<op, file, mesh_count, vertex_count, face_count,
                   pts, normals, tpt, mn, mx, meshes, result>>
    /\ externUnchanged /\ flagUnchanged /\ offUnchanged

\* line 100: aiReleaseImport(ptr)
ToMesh_Release ==
    /\ op = ToMesh /\ pc = "release"
    /\ aiReleaseImport(ptr)
    /\ pc' = "return"
    /\ UNCHANGED <<op, file, imports, ptr, scene, derefs, invalid>>
    /\ loopUnchanged /\ outUnchanged /\ flagUnchanged /\ offUnchanged

\* lines 102-107: Some(Mesh { points, normals: Some(normals), faces, uvcoords: Some(tpt) })
ToMesh_Return ==
    /\ op = ToMesh /\ pc = "return"
    /\ result' = Some([points |-> pts, normals |-> Some(normals),
                       faces |-> faces, uvcoords |-> Some(tpt)])
    /\ pc' = "returned"
    /\ UNCHANGED <<op, file, scene, derefs, invalid, pts, normals, tpt, faces, mn, mx, meshes>>
    /\ externUnchanged /\ loopUnchanged /\ flagUnchanged /\ offUnchanged

aiImportFileToMesh ==
    \/ ToMesh_Import
    \/ ToMesh_NullCheck
    \/ ToMesh_MeshCount
    \/ ToMesh_MeshLoop
    \/ ToMesh_VertexLoop
    \/ ToMesh_FaceLoop
    \/ ToMesh_Release
    \/ ToMesh_Return

(***************************************************************************)
(* aiImportFileToMeshes: one Mesh per submesh.                             *)
(***************************************************************************)
MnInit == 10000000

\* mn = a.min(b.min(c.min(mn))) and mx = a.max(b.max(c.max(mx)))
NextMn(a, b, c, m) == Min2(a, Min2(b, Min2(c, m)))
NextMx(a, b, c, m) == Max2(a, Max2(b, Max2(c, m)))

\* A push at the front of the sequence.
MeshesPushFront(ms, m) == <<m>> \o ms

\* meshes.push(Mesh { points, normals: Some(normals), faces, uvcoords: Some(uvs) })
MeshesPush(ms, m) == Append(ms, m)

\* lines 111-116: the import
ToMeshes_Import ==
    /\ op = ToMeshes /\ pc = "start"
    /\ aiImportFile(file, ToMeshesFlags)
    /\ UNCHANGED <<op, file, releases, derefs, invalid>>
    /\ loopUnchanged /\ outUnchanged /\ flagUnchanged /\ offUnchanged

\* lines 117-119: if ptr.is_null() { return None; }
ToMeshes_NullCheck ==
    /\ op = ToMeshes /\ pc = "null_check"
    /\ IF IsNull(ptr)
       THEN /\ result' = NoneOpt
            /\ pc' = "returned"
       ELSE /\ pc' = "mesh_count"
            /\ UNCHANGED result
    /\ UNCHANGED <<op, file, scene, derefs, invalid, pts, normals, tpt, faces, mn, mx, meshes>>
    /\ externUnchanged /\ loopUnchanged /\ flagUnchanged /\ offUnchanged

\* lines 123-125: mesh_count = (*ptr).mNumMeshes; meshes = Vec::with_capacity(mesh_count)
ToMeshes_MeshCount ==
    /\ op = ToMeshes /\ pc = "mesh_count"
    /\ mesh_count' = scene.mNumMeshes
    /\ derefs' = derefs + 1
    /\ meshes' = <<>>
    /\ j' = 0
    /\ pc' = "mesh_loop"
    /\ UNCHANGED <<op, file, scene, invalid, vertex_count, face_count, i, ind_base,
                   pts, normals, tpt, faces, mn, mx, result>>
    /\ externUnchanged /\ flagUnchanged /\ offUnchanged

\* lines 127-137: the head of for j in 0..mesh_count, the submesh record, and
\* the empty accumulators of the submesh
ToMeshes_MeshLoop ==
    /\ op = ToMeshes /\ pc = "mesh_loop"
    /\ IF j < mesh_count
       THEN \E m \in MeshRecordAt(j) :
            /\ scene' = [scene EXCEPT !.mMeshes = Recorded(@, j, m)]
            /\ derefs' = derefs + 3
            /\ vertex_count' = m.mNumVertices
            /\ face_count' = m.mNumFaces
            /\ tpt' = <<>> /\ pts' = <<>> /\ faces' = <<>> /\ normals' = <<>>
            /\ i' = 0
            /\ pc' = "vertex_loop"
       ELSE /\ pc' = "release"
            /\ UNCHANGED <<scene, derefs, vertex_count, face_count, i, pts, normals, tpt, faces>>
    /\ UNCHANGED <<op, file, invalid, mesh_count, j, ind_base, mn, mx, meshes, result>>
    /\ externUnchanged /\ flagUnchanged /\ offUnchanged

\* lines 141-148: for i in 0..vertex_count: the position, the normal, the UV;
\* after the last vertex, mn = 10000000 and mx = 0
ToMeshes_VertexLoop ==
    /\ op = ToMeshes /\ pc = "vertex_loop"
    /\ IF i < vertex_count
       THEN \E n \in ReadNormal(j, i), t \in ReadUV(j, i) :
            /\ derefs' = derefs + 3
            /\ invalid' = invalid + InvalidVertexReads
            /\ IF n.crash \/ t.crash
               THEN /\ pc' = "crashed"
                    /\ UNCHANGED <<pts, normals, tpt, i>>
               ELSE /\ pts' = PushPoint(pts, j, i)
                    /\ normals' = Append(normals, n.val)
                    /\ tpt' = Append(tpt, xy(t.val))
                    /\ i' = i + 1
                    /\ pc' = "vertex_loop"
            /\ UNCHANGED <<mn, mx>>
       ELSE /\ mn' = MnInit
            /\ mx' = 0
            /\ i' = 0
            /\ pc' = "face_loop"
            /\ UNCHANGED <<derefs, invalid, pts, normals, tpt>>
    /\ UNCHANGED <<op, file, scene, mesh_count, j, vertex_count, face_count, ind_base,
                   faces, meshes, result>>
    /\ externUnchanged /\ flagUnchanged /\ offUnchanged

\* lines 150-166: for i in 0..face_count: the face, its three indices as they
\* are, and the running minimum and maximum; after the last face, the Mesh of
\* the submesh is pushed
ToMeshes_FaceLoop ==
    /\ op = ToMeshes /\ pc = "face_loop"
    /\ IF i < face_count
       THEN \E face \in FaceAt(j, i, vertex_count) :
            \E a \in ReadIndex(face, 0, vertex_count),
               b \in ReadIndex(face, 1, vertex_count),
               c \in ReadIndex(face, 2, vertex_count) :
            /\ scene' = [scene EXCEPT !.mMeshes[j + 1].mFaces = Recorded(@, i, face)]
            /\ derefs' = derefs + 4
            /\ invalid' = invalid + InvalidIndexReads(face)
            /\ IF a.crash \/ b.crash \/ c.crash
               THEN /\ pc' = "crashed"
                    /\ UNCHANGED <<faces, i, mn, mx>>
               ELSE /\ faces' = Append(faces, MeshFace(a.val, b.val, c.val))
                    /\ mn' = NextMn(a.val, b.val, c.val, mn)
                    /\ mx' = NextMx(a.val, b.val, c.val, mx)
                    /\ i' = i + 1
                    /\ pc' = "face_loop"
            /\ UNCHANGED <<j, meshes>>
       ELSE /\ meshes' = MeshesPush(meshes, [points |-> pts, normals |-> Some(normals),
                                              faces |-> faces, uvcoords |-> Some(tpt)])
            /\ j' = j + 1
            /\ pc' = "mesh_loop"
            /\ UNCHANGED <<scene, derefs, invalid, faces, i, mn, mx>>
    /\ UNCHANGED <<op, file, mesh_count, vertex_count, face_count, ind_base,
                   pts, normals, tpt, result>>
    /\ externUnchanged /\ flagUnchanged /\ offUnchanged

\* line 169: aiReleaseImport(ptr)
ToMeshes_Release ==
    /\ op = ToMeshes /\ pc = "release"
    /\ aiReleaseImport(ptr)
    /\ pc' = "return"
    /\ UNCHANGED <<op, file, imports, ptr, scene, derefs, invalid>>
    /\ loopUnchanged /\ outUnchanged /\ flagUnchanged /\ offUnchanged

\* line 171: Some(meshes)
ToMeshes_Return ==
    /\ op = ToMeshes /\ pc = "return"
    /\ result' = Some(meshes)
    /\ pc' = "returned"
    /\ UNCHANGED <<op, file, scene, derefs, invalid, pts, normals, tpt, faces, mn, mx, meshes>>
    /\ externUnchanged /\ loopUnchanged /\ flagUnchanged /\ offUnchanged

aiImportFileToMeshes ==
    \/ ToMeshes_Import
    \/ ToMeshes_NullCheck
    \/ ToMeshes_MeshCount
    \/ ToMeshes_MeshLoop
    \/ ToMeshes_VertexLoop
    \/ ToMeshes_FaceLoop
    \/ ToMeshes_Release
    \/ ToMeshes_Return

(***************************************************************************)
(* load_object of the demo (src/src/bin.rs): the walk of the conversions,  *)
(* written out once more, without UV coordinates and with the indices of   *)
(* the faces in one flat vector (`faces` holds it).  After aiImportFile    *)
(* the position is "null_check" as in the conversions; load_object goes on *)
(* from there without a check.                                             *)
(***************************************************************************)
LoadObject == "load_object"

\* "suzanne.obj"
SuzanneObj == <<115, 117, 122, 97, 110, 110, 101, 46, 111, 98, 106>>

LoadObjectFlags == BitOr(Triangulate, GenSmoothNormals)

\* lines 25-31: the empty vectors, and the import
LoadObject_Import ==
    /\ op = LoadObject /\ pc = "start"
    /\ pts' = <<>> /\ faces' = <<>> /\ normals' = <<>>
    /\ aiImportFile(file, LoadObjectFlags)
    /\ UNCHANGED <<op, file, releases, derefs, invalid, tpt, mn, mx, meshes, result>>
    /\ loopUnchanged /\ flagUnchanged /\ offUnchanged

\* line 33: mesh_count = (*ptr).mNumMeshes, whatever ptr is.  Through a null
\* pointer the read is undefined: the process dies, or the count is whatever
\* is read.
LoadObject_MeshCount ==
    /\ op = LoadObject /\ pc = "null_check"
    /\ derefs' = derefs + 1
    /\ IF IsNull(ptr)
       THEN /\ invalid' = invalid + 1
            /\ \/ pc' = "crashed" /\ UNCHANGED <<mesh_count, j>>
               \/ \E n \in 0..1 : mesh_count' = n /\ j' = 0 /\ pc' = "mesh_loop"
       ELSE /\ mesh_count' = scene.mNumMeshes
            /\ j' = 0
            /\ pc' = "mesh_loop"
            /\ UNCHANGED invalid
    /\ UNCHANGED <<op, file, scene, vertex_count, face_count, i, ind_base>>
    /\ externUnchanged /\ outUnchanged /\ flagUnchanged /\ offUnchanged

\* lines 36-39: the head of for j in 0..mesh_count, and the submesh record.
\* Through a null pointer the read of mMeshes ends the process.
LoadObject_MeshLoop ==
    /\ op = LoadObject /\ pc = "mesh_loop"
    /\ IF j < mesh_count
       THEN IF IsNull(ptr)
            THEN /\ derefs' = derefs + 1
                 /\ invalid' = invalid + 1
                 /\ pc' = "crashed"
                 /\ UNCHANGED <<scene, vertex_count, face_count, i>>
            ELSE \E m \in MeshRecordAt(j) :
                 /\ scene' = [scene EXCEPT !.mMeshes = Recorded(@, j, m)]
                 /\ derefs' = derefs + 3
                 /\ vertex_count' = m.mNumVertices
                 /\ face_count' = m.mNumFaces
                 /\ i' = 0
                 /\ pc' = "vertex_loop"
                 /\ UNCHANGED invalid
       ELSE /\ pc' = "release"
            /\ UNCHANGED <<scene, derefs, invalid, vertex_count, face_count, i>>
    /\ UNCHANGED <<op, file, mesh_count, j, ind_base>>
    /\ externUnchanged /\ outUnchanged /\ flagUnchanged /\ offUnchanged

\* lines 43-46: for i in 0..vertex_count: the position and the normal
LoadObject_VertexLoop ==
    /\ op = LoadObject /\ pc = "vertex_loop"
    /\ IF i < vertex_count
       THEN \E n \in ReadNormal(j, i) :
            /\ derefs' = derefs + 2
            /\ invalid' = invalid + (IF scene.mNormalsNull THEN 1 ELSE 0)
            /\ IF n.crash
               THEN /\ pc' = "crashed"
                    /\ UNCHANGED <<pts, normals, i>>
               ELSE /\ pts' = PushPoint(pts, j, i)
                    /\ normals' = Append(normals, n.val)
                    /\ i' = i + 1
                    /\ pc' = "vertex_loop"
       ELSE /\ i' = 0
            /\ pc' = "face_loop"
            /\ UNCHANGED <<derefs, invalid, pts, normals>>
    /\ UNCHANGED <<op, file, scene, mesh_count, j, vertex_count, face_count, ind_base,
                   tpt, faces, mn, mx, meshes, result>>
    /\ externUnchanged /\ flagUnchanged /\ offUnchanged

\* lines 48-53: for i in 0..face_count: the face, and for k in 0..3 its index
\* k; after the last face, the next submesh
LoadObject_FaceLoop ==
    /\ op = LoadObject /\ pc = "face_loop"
    /\ IF i < face_count
       THEN \E face \in FaceAt(j, i, vertex_count) :
            \E a \in ReadIndex(face, 0, vertex_count),
               b \in ReadIndex(face, 1, vertex_count),
               c \in ReadIndex(face, 2, vertex_count) :
            /\ scene' = [scene EXCEPT !.mMeshes[j + 1].mFaces = Recorded(@, i, face)]
            /\ derefs' = derefs + 4
            /\ invalid' = invalid + InvalidIndexReads(face)
            /\ IF a.crash \/ b.crash \/ c.crash
               THEN /\ pc' = "crashed"
                    /\ UNCHANGED <<faces, i>>
               ELSE /\ faces' = faces \o <<a.val, b.val, c.val>>
                    /\ i' = i + 1
                    /\ pc' = "face_loop"
            /\ UNCHANGED j
       ELSE /\ j' = j + 1
            /\ pc' = "mesh_loop"
            /\ UNCHANGED <<scene, derefs, invalid, faces, i>>
    /\ UNCHANGED <<op, file, mesh_count, vertex_count, face_count, ind_base,
                   pts, normals, tpt, mn, mx, meshes, result>>
    /\ externUnchanged /\ flagUnchanged /\ offUnchanged

\* line 56: aiReleaseImport(ptr)
LoadObject_Release ==
    /\ op = LoadObject /\ pc = "release"
    /\ aiReleaseImport(ptr)
    /\ pc' = "return"
    /\ UNCHANGED <<op, file, imports, ptr, scene, derefs, invalid>>
    /\ loopUnchanged /\ outUnchanged /\ flagUnchanged /\ offUnchanged

\* lines 58-96: the render sequence of the points, the normals and the indices
LoadObject_Return ==
    /\ op = LoadObject /\ pc = "return"
    /\ result' = Some([points |-> pts, normals |-> normals, indices |-> faces])
    /\ pc' = "returned"
    /\ UNCHANGED <<op, file, scene, derefs, invalid, pts, normals, tpt, faces, mn, mx, meshes>>
    /\ externUnchanged /\ loopUnchanged /\ flagUnchanged /\ offUnchanged

(***************************************************************************)
(* The library, once the scene is released: the memory the scene was in is *)
(* its own again, and it puts it to another use.                           *)
(***************************************************************************)
\* A reuse that takes with it what the conversion collected and returned, as
\* it would if the vectors were views of the scene's memory.
ForeignMemoryReusedClearing ==
    /\ mem = "freed"
    /\ mem' = "reused"
    /\ pts' = <<>> /\ normals' = <<>> /\ tpt' = <<>> /\ faces' = <<>>
    /\ meshes' = <<>> /\ result' = <<>>
    /\ UNCHANGED <<op, file, pc, imports, ptr, scene, releases, derefs, invalid, mn, mx>>
    /\ loopUnchanged /\ flagUnchanged /\ offUnchanged

ForeignMemoryReused ==
    /\ mem = "freed"
    /\ mem' = "reused"
    /\ UNCHANGED <<op, file, pc, imports, ptr, scene, releases, derefs, invalid>>
    /\ loopUnchanged /\ outUnchanged /\ flagUnchanged /\ offUnchanged

(***************************************************************************)
(* The conversions: one call of either, with any of the paths.             *)
(***************************************************************************)
FlagsIdle ==
    /\ fa = None /\ fb = None /\ fc = None
    /\ fop = "idle" /\ fr = None
    /\ ft = FALSE /\ fs = <<>>

OffsetIdle ==
    /\ vcounts = <<>> /\ sub = 0 /\ base32 = <<0, 0>> /\ sum = <<0, 0>>
    /\ emitted = <<0, 0>> /\ wrapped = FALSE /\ opc = "idle"

ConvStart(o, f) ==
    /\ op = o /\ file = f /\ pc = "start"
    /\ imports = <<>> /\ ptr = "unset" /\ scene = NoScene /\ mem = "none" /\ releases = <<>>
    /\ derefs = 0 /\ invalid = 0
    /\ mesh_count = 0 /\ j = 0 /\ vertex_count = 0 /\ face_count = 0 /\ i = 0
    /\ ind_base = 0
    /\ pts = <<>> /\ normals = <<>> /\ tpt = <<>> /\ faces = <<>>
    /\ mn = 0 /\ mx = 0 /\ meshes = <<>>
    /\ result = NoneOpt

Init ==
    /\ \E o \in {ToMesh, ToMeshes}, f \in Files : ConvStart(o, f)
    /\ FlagsIdle
    /\ OffsetIdle

Next ==
    \/ ToMesh_Import
    \/ ToMesh_NullCheck
    \/ ToMesh_MeshCount
    \/ ToMesh_MeshLoop
    \/ ToMesh_VertexLoop
    \/ ToMesh_FaceLoop
    \/ ToMesh_Release
    \/ ToMesh_Return
    \/ ToMeshes_Import
    \/ ToMeshes_NullCheck
    \/ ToMeshes_MeshCount
    \/ ToMeshes_MeshLoop
    \/ ToMeshes_VertexLoop
    \/ ToMeshes_FaceLoop
    \/ ToMeshes_Release
    \/ ToMeshes_Return
    \/ ForeignMemoryReused

Spec == Init /\ [][Next]_vars

\* The demo: main calls load_object once, for suzanne.obj.
InitDemo ==
    /\ ConvStart(LoadObject, SuzanneObj)
    /\ FlagsIdle
    /\ OffsetIdle

NextDemo ==
    \/ LoadObject_Import
    \/ LoadObject_MeshCount
    \/ LoadObject_MeshLoop
    \/ LoadObject_VertexLoop
    \/ LoadObject_FaceLoop
    \/ LoadObject_Release
    \/ LoadObject_Return

SpecDemo == InitDemo /\ [][NextDemo]_vars

\* The two conversions of one file, one after the other: a caller that has
\* the meshes of aiImportFileToMeshes calls aiImportFileToMesh for the file.
\* `meshes` keeps what the first call returned.
BothFile == <<109, 46, 111>>

SecondCall ==
    /\ op = ToMeshes /\ pc = "returned" /\ result /= NoneOpt
    /\ op' = ToMesh /\ pc' = "start"
    /\ result' = NoneOpt
    /\ mesh_count' = 0 /\ j' = 0 /\ vertex_count' = 0 /\ face_count' = 0 /\ i' = 0
    /\ ind_base' = 0
    /\ UNCHANGED <<file, scene, derefs, invalid, pts, normals, tpt, faces, mn, mx, meshes>>
    /\ externUnchanged /\ flagUnchanged /\ offUnchanged

InitBoth ==
    /\ ConvStart(ToMeshes, BothFile)
    /\ FlagsIdle
    /\ OffsetIdle

NextBoth ==
    \/ ToMeshes_Import
    \/ ToMeshes_NullCheck
    \/ ToMeshes_MeshCount
    \/ ToMeshes_MeshLoop
    \/ ToMeshes_VertexLoop
    \/ ToMeshes_FaceLoop
    \/ ToMeshes_Release
    \/ ToMeshes_Return
    \/ SecondCall
    \/ ToMesh_Import
    \/ ToMesh_NullCheck
    \/ ToMesh_MeshCount
    \/ ToMesh_MeshLoop
    \/ ToMesh_VertexLoop
    \/ ToMesh_FaceLoop
    \/ ToMesh_Release
    \/ ToMesh_Return

SpecBoth == InitBoth /\ [][NextBoth]_vars

(***************************************************************************)
(* The flag set on its own: operands drawn from the sets over a sample of  *)
(* the 32 bits, and one operation applied to them.                         *)
(***************************************************************************)
\* Bits of constants the conversions use, the lowest and the highest bit, then
\* more bits of the conversions' constants.
SampleOrder == <<3, 18, 0, 31, 6, 23>>
SampleBits == {SampleOrder[k] : k \in 1..Min2(NumSampleBits, Len(SampleOrder))}
RECURSIVE SumPow2(_)
SumPow2(S) == IF S = {} THEN 0 ELSE LET k == CHOOSE x \in S : TRUE IN Pow2(k) + SumPow2(S \ {k})
FromBits(S) == U32(SumPow2({k - 16 : k \in {x \in S : x >= 16}}), SumPow2({x \in S : x < 16}))
FlagInputs == {FromBits(S) : S \in SUBSET SampleBits}

ConvIdle ==
    /\ op = "none" /\ file = <<>> /\ pc = "idle"
    /\ imports = <<>> /\ ptr = "unset" /\ scene = NoScene /\ mem = "none" /\ releases = <<>>
    /\ derefs = 0 /\ invalid = 0
    /\ mesh_count = 0 /\ j = 0 /\ vertex_count = 0 /\ face_count = 0 /\ i = 0
    /\ ind_base = 0
    /\ pts = <<>> /\ normals = <<>> /\ tpt = <<>> /\ faces = <<>>
    /\ mn = 0 /\ mx = 0 /\ meshes = <<>>
    /\ result = NoneOpt

InitFlags ==
    /\ ConvIdle
    /\ OffsetIdle
    /\ fa \in FlagInputs /\ fb \in FlagInputs /\ fc = None
    /\ fop = "operands" /\ fr = None
    /\ ft = FALSE /\ fs = <<>>

\* fa | fb
ApplyBitOr ==
    /\ fop = "operands"
    /\ fr' = BitOr(fa, fb)
    /\ fop' = "bitor"
    /\ UNCHANGED <<fa, fb, fc, ft, fs, convVars, offVars>>

\* fa & fb
ApplyBitAnd ==
    /\ fop = "operands"
    /\ fr' = BitAnd(fa, fb)
    /\ fop' = "bitand"
    /\ UNCHANGED <<fa, fb, fc, ft, fs, convVars, offVars>>

\* (fa | fb) | fc
ApplyBitOrThird ==
    /\ fop = "bitor"
    /\ fr' = BitOr(fr, fc)
    /\ fop' = "bitor_bitor"
    /\ UNCHANGED <<fa, fb, fc, ft, fs, convVars, offVars>>

\* (fa | fb) & fa
ApplyBitAndOperand ==
    /\ fop = "bitor"
    /\ fr' = BitAnd(fr, fa)
    /\ fop' = "bitor_bitand"
    /\ UNCHANGED <<fa, fb, fc, ft, fs, convVars, offVars>>

\* fa.set(fb)
ApplySet ==
    /\ fop = "operands"
    /\ ft' = set(fa, fb)
    /\ fop' = "set"
    /\ UNCHANGED <<fa, fb, fc, fr, fs, convVars, offVars>>

\* format!("{:?}", fa)
ApplyDebug ==
    /\ fop = "operands"
    /\ fs' = Debug(fa)
    /\ fop' = "fmt"
    /\ UNCHANGED <<fa, fb, fc, fr, ft, convVars, offVars>>

\* format!("{:?}", fa | fb)
ApplyDebugUnion ==
    /\ fop = "bitor"
    /\ fs' = Debug(fr)
    /\ fop' = "bitor_fmt"
    /\ UNCHANGED <<fa, fb, fc, fr, ft, convVars, offVars>>

NextFlags ==
    \/ ApplyBitOr
    \/ ApplyBitAnd
    \/ ApplyBitAndOperand
    \/ ApplySet
    \/ ApplyDebug
    \/ ApplyDebugUnion

SpecFlags == InitFlags /\ [][NextFlags]_vars

(***************************************************************************)
(* The union of three flag sets: three operands, and | applied twice.      *)
(***************************************************************************)
InitFlagsThree ==
    /\ ConvIdle
    /\ OffsetIdle
    /\ fa \in FlagInputs /\ fb \in FlagInputs /\ fc \in FlagInputs
    /\ fop = "operands" /\ fr = None
    /\ ft = FALSE /\ fs = <<>>

NextFlagsThree ==
    \/ ApplyBitOr
    \/ ApplyBitOrThird

SpecFlagsThree == InitFlagsThree /\ [][NextFlagsThree]_vars

(***************************************************************************)
(* The offset of aiImportFileToMesh in the width it has: ind_base and the  *)
(* indices are u32, the vertex count of a submesh is at most               *)
(* AI_MAX_VERTICES.  The walk takes the submeshes in order; of each it     *)
(* rebases the largest index the submesh can hold, then moves the offset.  *)
(* An addition that passes 2^32 panics in a build with overflow checks and *)
(* wraps in one without.                                                   *)
(***************************************************************************)
AI_MAX_VERTICES == U32(32767, 65535)    \* value: 0x7fffffff

\* The vertex counts a submesh is drawn with.
WideCounts == {U32(0, 1), U32(0, 3), U32(16384, 0), AI_MAX_VERTICES}

\* x + y of two u32: the 32 low bits of the sum, and whether it passed 2^32.
AddU32(x, y) ==
    LET low == x[2] + y[2]
        high == x[1] + y[1] + low \div Pow2(16)
    IN  [value |-> U32(high % Pow2(16), low % Pow2(16)), overflow |-> high >= Pow2(16)]

\* The sum of a number of any size, held as <<high, low 16 bits>>, and a u32.
AddExact(s, y) ==
    LET low == s[2] + y[2]
    IN  <<s[1] + y[1] + low \div Pow2(16), low % Pow2(16)>>

\* The largest index of a submesh of `count` vertices, count at least 1.
LastIndex(count) ==
    IF count[2] > 0 THEN U32(count[1], count[2] - 1) ELSE U32(count[1] - 1, Pow2(16) - 1)

\* lines 91-93: *face.mIndices.add(k) + ind_base, in u32
Rebase32(index, base) == AddU32(index, base)

\* line 97: ind_base += vertex_count as u32
NextIndBase32(base, count) == AddU32(base, count)

RECURSIVE CountSeqs(_)
CountSeqs(n) ==
    IF n = 0 THEN {<<>>}
    ELSE LET shorter == CountSeqs(n - 1)
         IN  shorter \cup {Append(q, c) : q \in {x \in shorter : Len(x) = n - 1}, c \in WideCounts}

InitOffset ==
    /\ ConvIdle
    /\ FlagsIdle
    /\ vcounts \in CountSeqs(MaxWideMeshes) \ {<<>>}
    /\ sub = 0 /\ base32 = U32(0, 0) /\ sum = <<0, 0>>
    /\ emitted = U32(0, 0) /\ wrapped = FALSE /\ opc = "face"

\* A face of submesh `sub` with the submesh's largest index
Offset_Face ==
    /\ opc = "face" /\ sub < Len(vcounts)
    /\ LET r == Rebase32(LastIndex(vcounts[sub + 1]), base32)
       IN  IF r.overflow
           THEN \/ opc' = "panicked" /\ UNCHANGED <<emitted, wrapped>>
                \/ opc' = "advance" /\ emitted' = r.value /\ wrapped' = TRUE
           ELSE opc' = "advance" /\ emitted' = r.value /\ UNCHANGED wrapped
    /\ UNCHANGED <<vcounts, sub, base32, sum, convVars, flagVars>>

\* The end of submesh `sub`: the offset moves past it
Offset_Advance ==
    /\ opc = "advance"
    /\ LET r == NextIndBase32(base32, vcounts[sub + 1])
       IN  IF r.overflow
           THEN \/ opc' = "panicked" /\ UNCHANGED <<base32, sum, sub, wrapped>>
                \/ /\ opc' = "face" /\ base32' = r.value /\ wrapped' = TRUE
                   /\ sum' = AddExact(sum, vcounts[sub + 1]) /\ sub' = sub + 1
           ELSE /\ opc' = "face" /\ base32' = r.value /\ UNCHANGED wrapped
                /\ sum' = AddExact(sum, vcounts[sub + 1]) /\ sub' = sub + 1
    /\ UNCHANGED <<vcounts, emitted, convVars, flagVars>>

NextOffset ==
    \/ Offset_Face
    \/ Offset_Advance

SpecOffset == InitOffset /\ [][NextOffset]_vars

(***************************************************************************)
(* The face range of aiImportFileToMeshes with indices of the size a       *)
(* submesh of up to AI_MAX_VERTICES vertices has: mn and mx over the faces *)
(* of one submesh, all of them triangles.                                  *)
(***************************************************************************)
\* Indices of a face: small ones, one past 10000000, and the largest index
\* of a submesh of AI_MAX_VERTICES vertices.
WideIndices == {0, 7, MnInit + 1, Pow2(30) + (Pow2(30) - 2)}

InitFaceRange ==
    /\ op = "face_range" /\ file = <<>> /\ pc = "face_loop"
    /\ imports = <<>> /\ ptr = "unset" /\ scene = NoScene /\ mem = "none" /\ releases = <<>>
    /\ derefs = 0 /\ invalid = 0
    /\ mesh_count = 0 /\ j = 0 /\ vertex_count = 0 /\ face_count = 0 /\ i = 0
    /\ ind_base = 0
    /\ pts = <<>> /\ normals = <<>> /\ tpt = <<>> /\ faces = <<>>
    /\ mn = MnInit /\ mx = 0 /\ meshes = <<>>
    /\ result = NoneOpt
    /\ FlagsIdle
    /\ OffsetIdle

\* lines 150-158: one face of three indices, and the running minimum and maximum
FaceRange_Face ==
    /\ op = "face_range" /\ i < MaxWideFaces
    /\ \E a \in WideIndices, b \in WideIndices, c \in WideIndices :
        /\ faces' = Append(faces, MeshFace(a, b, c))
        /\ mn' = NextMn(a, b, c, mn)
        /\ mx' = NextMx(a, b, c, mx)
    /\ i' = i + 1
    /\ UNCHANGED <<op, file, pc, scene, derefs, invalid, mesh_count, j, vertex_count,
                   face_count, ind_base, pts, normals, tpt, meshes, result>>
    /\ externUnchanged /\ flagUnchanged /\ offUnchanged

NextFaceRange ==
    \/ FaceRange_Face

SpecFaceRange == InitFaceRange /\ [][NextFaceRange]_vars

(***************************************************************************)
(* Properties.  The scene as read, `scene`, is what the claims measure the *)
(* output against.                                                         *)
(***************************************************************************)
\* The meshes the call has returned: the one Mesh of aiImportFileToMesh, the
\* sequence of aiImportFileToMeshes, nothing when it returned None or has not
\* returned.
Produced ==
    IF pc /= "returned" \/ result = NoneOpt THEN <<>>
    ELSE IF op = ToMesh THEN result
    ELSE result[1]

\* Every index a face of the scene holds is a vertex of its own submesh.
SceneIndicesInRange ==
    \A jj \in 1..Len(scene.mMeshes) :
        \A ff \in 1..Len(scene.mMeshes[jj].mFaces) :
            LET face == scene.mMeshes[jj].mFaces[ff] IN
            \A k \in 1..face.mNumIndices :
                face.mIndices[k] < scene.mMeshes[jj].mNumVertices

\* Every face of the scene is a triangle.
SceneTriangles ==
    \A jj \in 1..Len(scene.mMeshes) :
        \A ff \in 1..Len(scene.mMeshes[jj].mFaces) :
            scene.mMeshes[jj].mFaces[ff].mNumIndices = 3

IndicesBelowPoints(m) ==
    \A ff \in 1..Len(m.faces) : \A k \in 1..3 : m.faces[ff][k] < Len(m.points)

\* C1: in every mesh either conversion returns, from a scene whose face
\* indices are each below the vertex count of their own submesh, every index
\* of every face is below the number of points of that mesh.
C1_FaceIndexBelowPoints ==
    (pc = "returned" /\ SceneIndicesInRange) =>
        \A m \in 1..Len(Produced) : IndicesBelowPoints(Produced[m])

\* With triangles only, the bound of C1 holds.
FaceIndexBelowPoints_Triangles ==
    (pc = "returned" /\ SceneIndicesInRange /\ SceneTriangles) =>
        \A m \in 1..Len(Produced) : IndicesBelowPoints(Produced[m])

\* The vertices of the first n submeshes, and the faces read of them.
RECURSIVE VerticesBefore(_, _)
VerticesBefore(ms, n) ==
    IF n = 0 THEN 0 ELSE ms[n].mNumVertices + VerticesBefore(ms, n - 1)
RECURSIVE FacesBefore(_, _)
FacesBefore(ms, n) ==
    IF n = 0 THEN 0 ELSE Len(ms[n].mFaces) + FacesBefore(ms, n - 1)

\* The offset after submeshes of the vertex counts `counts`, as the code
\* accumulates it.
RECURSIVE IndBaseAfter(_)
IndBaseAfter(counts) ==
    IF counts = <<>> THEN 0
    ELSE NextIndBase(IndBaseAfter(SubSeq(counts, 1, Len(counts) - 1)), counts[Len(counts)])

\* C2: aiImportFileToMesh emits a three-index face (a, b, c) of submesh j as
\* (a+off, b+off, c+off), off the sum of the vertex counts of the submeshes
\* before j; for the counts 4, 6, 3 index 0 of the second submesh becomes 4
\* and index 2 of the third becomes 12.
C2_FaceRebased ==
    /\ op = ToMesh =>
        \A jj \in 1..Len(scene.mMeshes) :
            \A ff \in 1..Len(scene.mMeshes[jj].mFaces) :
                LET face == scene.mMeshes[jj].mFaces[ff]
                    off == VerticesBefore(scene.mMeshes, jj - 1)
                    at == FacesBefore(scene.mMeshes, jj - 1) + ff
                IN  face.mNumIndices = 3 =>
                        /\ at <= Len(faces)
                        /\ faces[at] = <<face.mIndices[1] + off,
                                         face.mIndices[2] + off,
                                         face.mIndices[3] + off>>
    /\ Rebase(0, IndBaseAfter(<<4>>)) = 4
    /\ Rebase(2, IndBaseAfter(<<4, 6>>)) = 12

\* A triangle of the third submesh is emitted, after two submeshes with vertices.
C2_Witness ==
    /\ op = ToMesh
    /\ Len(scene.mMeshes) = 3
    /\ scene.mMeshes[1].mNumVertices > 0
    /\ scene.mMeshes[2].mNumVertices > 0
    /\ Len(scene.mMeshes[3].mFaces) = 1
    /\ scene.mMeshes[3].mFaces[1].mNumIndices = 3
    /\ Len(faces) = 1

\* The positions of the submeshes from the jj-th on, in array order.
RECURSIVE PointsFrom(_, _)
PointsFrom(ms, jj) ==
    IF jj > Len(ms) THEN <<>>
    ELSE [ii \in 1..ms[jj].mNumVertices |-> mVertices(jj - 1, ii - 1)] \o PointsFrom(ms, jj + 1)

\* C3: the mesh aiImportFileToMesh returns has as many points as the
\* submeshes have vertices together, and its points are the positions of the
\* submeshes in array order and, within a submesh, in vertex order.
C3_PointsConcatenated ==
    (op = ToMesh /\ pc = "returned" /\ result /= NoneOpt) =>
        /\ Len(scene.mMeshes) = scene.mNumMeshes
        /\ Len(result[1].points) = VerticesBefore(scene.mMeshes, Len(scene.mMeshes))
        /\ result[1].points = PointsFrom(scene.mMeshes, 1)

\* A mesh is returned for three submeshes, two of them with several vertices.
C3_Witness ==
    /\ op = ToMesh /\ pc = "returned" /\ result /= NoneOpt
    /\ Len(scene.mMeshes) = 3
    /\ scene.mMeshes[1].mNumVertices = 2
    /\ scene.mMeshes[3].mNumVertices = 2
    /\ Len(result[1].points) = 4

\* None comes back exactly for a null handle.
NoneIffNull ==
    pc = "returned" => (result = NoneOpt <=> ptr = "null")

\* C4: the conversions return None if and only if the import returned a null
\* handle; with a non-null handle they return Some and do not fail.
C4_NoneIffNullNoFailure ==
    /\ pc = "returned" => (result = NoneOpt <=> ptr = "null")
    /\ ptr = "scene" => pc /= "crashed"

\* C5: with a null handle neither conversion reads scene, submesh, vertex or
\* face memory: the null check comes before every read through the handle.
C5_NoReadThroughNull ==
    ptr /= "scene" => derefs = 0

\* None is returned for a null handle, nothing read.
C5_Witness ==
    pc = "returned" /\ ptr = "null" /\ result = NoneOpt /\ derefs = 0

\* C6: when the import returned a non-null handle, aiReleaseImport has been
\* called on it exactly once when the conversion returns, and is never called
\* more than once.
C6_ReleasedExactlyOnce ==
    /\ Len(releases) <= 1
    /\ (pc = "returned" /\ ptr = "scene") => releases = <<"scene">>

\* A conversion returns after walking a scene with submeshes.
C6_Witness ==
    pc = "returned" /\ ptr = "scene" /\ Len(scene.mMeshes) > 1 /\ Len(releases) = 1

\* C7 as stated: every return of a conversion, the early return on a failed
\* import included, is preceded by a call of aiReleaseImport on the pointer
\* the import returned.
C7_ReleaseBeforeEveryReturn ==
    pc = "returned" => (Len(releases) >= 1 /\ releases[1] = ptr)

\* C7, amended: a return with a non-null handle is preceded by one call of
\* aiReleaseImport on it; the early return on a failed import is preceded by
\* no call of aiReleaseImport, and returns None.
C7_ReleaseBeforeReturnWithHandle ==
    pc = "returned" =>
        IF ptr = "null" THEN releases = <<>> /\ result = NoneOpt
        ELSE releases = <<ptr>> /\ result /= NoneOpt

\* The early return: no release call was made.
C7_Witness ==
    pc = "returned" /\ ptr = "null" /\ releases = <<>> /\ Len(imports) = 1

\* C8: aiImportFileToMeshes returns one Mesh per submesh, in array order; the
\* k-th has the vertex count of the k-th submesh as points and its face count
\* as faces, and every face carries the indices of the submesh unchanged.
C8_OneMeshPerSubmesh ==
    (op = ToMeshes /\ pc = "returned" /\ result /= NoneOpt) =>
        LET out == result[1]
            ms == scene.mMeshes
        IN  /\ Len(ms) = scene.mNumMeshes
            /\ Len(out) = scene.mNumMeshes
            /\ \A k \in 1..Len(out) :
                /\ Len(out[k].points) = ms[k].mNumVertices
                /\ \A ii \in 1..Len(out[k].points) :
                       out[k].points[ii] = mVertices(k - 1, ii - 1)
                /\ Len(out[k].faces) = ms[k].mNumFaces
                /\ Len(ms[k].mFaces) = ms[k].mNumFaces
                /\ \A ff \in 1..Len(out[k].faces) :
                       \A n \in 1..ms[k].mFaces[ff].mNumIndices :
                           out[k].faces[ff][n] = ms[k].mFaces[ff].mIndices[n]

\* Several meshes are returned, a later one with a triangle.
C8_Witness ==
    /\ op = ToMeshes /\ pc = "returned" /\ result /= NoneOpt
    /\ Len(result[1]) = 3
    /\ Len(result[1][1].points) = 2
    /\ Len(result[1][2].points) = 0
    /\ Len(result[1][3].faces) = 1
    /\ scene.mMeshes[3].mFaces[1].mNumIndices = 3

\* Bit k of a u32.
HasBit(v, k) ==
    IF k >= 16 THEN (v[1] \div Pow2(k - 16)) % 2 = 1
    ELSE (v[2] \div Pow2(k)) % 2 = 1

\* C9: every import a conversion issues passes flags that hold Triangulate
\* (0x8), GenSmoothNormals (0x40) and GenUVCoords (0x40000).
C9_MinimumFlags ==
    \A k \in 1..Len(imports) :
        /\ HasBit(imports[k][2], 3)
        /\ HasBit(imports[k][2], 6)
        /\ HasBit(imports[k][2], 18)

\* aiImportFileToMeshes has issued its import.
C9_Witness ==
    op = ToMeshes /\ Len(imports) = 1 /\ imports[1][1] = file

\* C10: a | None == a and None | a == a, for every flag set a.
C10_NoneIsIdentity ==
    fop = "bitor" =>
        /\ fb = None => fr = fa
        /\ fa = None => fr = fb

\* A set of several flags was united with None.
C10_Witness ==
    fop = "bitor" /\ fb = None /\ HasBit(fa, 3) /\ HasBit(fa, 18)

\* C11: a | b == b | a and (a | b) | c == a | (b | c), for all flag sets
\* a, b and c.
C11_UnionCommutesAssociates ==
    /\ fop = "bitor" => fr = BitOr(fb, fa)
    /\ fop = "bitor_bitor" => fr = BitOr(fa, BitOr(fb, fc))

\* Three sets, no one within another, were united.
C11_Witness ==
    /\ fop = "bitor_bitor"
    /\ HasBit(fa, 3) /\ ~HasBit(fb, 3) /\ ~HasBit(fc, 3)
    /\ ~HasBit(fa, 18) /\ HasBit(fb, 18) /\ ~HasBit(fc, 18)
    /\ ~HasBit(fa, 31) /\ ~HasBit(fb, 31) /\ HasBit(fc, 31)
    /\ HasBit(fr, 3) /\ HasBit(fr, 18) /\ HasBit(fr, 31)

\* C12: (a | b) & a == a, and so (a | b).set(a), for all flag sets a and b.
C12_UnionKeepsOperand ==
    /\ fop = "bitor_bitand" => fr = fa
    /\ fop = "bitor" => set(fr, fa) /\ set(fr, fb)

\* The union of two sets, each with a bit the other lacks, was intersected
\* with the first.
C12_Witness ==
    /\ fop = "bitor_bitand"
    /\ HasBit(fa, 3) /\ ~HasBit(fb, 3)
    /\ HasBit(fb, 18) /\ ~HasBit(fa, 18)
    /\ fr = fa

\* The bits of a u32.
Bits(v) == {k \in 0..31 : HasBit(v, k)}

\* C13: a.set(b) is true if and only if every bit of b is a bit of a, for
\* all flag sets a and b, b of several bits included.
C13_SetIffAllBitsPresent ==
    fop = "set" => (ft <=> Bits(fb) \subseteq Bits(fa))

\* The test came out false for a flag of two bits of which one is present,
\* and true for a flag of two bits that are both present.
C13_WitnessOneOfTwo ==
    /\ fop = "set" /\ ~ft
    /\ Bits(fb) = {3, 18} /\ HasBit(fa, 3) /\ ~HasBit(fa, 18)
C13_Witness ==
    /\ fop = "set" /\ ft
    /\ Bits(fb) = {3, 18} /\ Bits(fa) = {3, 18, 31}

\* The set fmt rendered.
Rendered == IF fop = "fmt" THEN fa ELSE fr
HasRendered == fop \in {"fmt", "bitor_fmt"}

\* C14: the rendering of a flag set is "None" when the set is empty, and is
\* neither "None" nor the empty string when it is not.
C14_NoneOnlyForEmpty ==
    HasRendered =>
        /\ \A p \in 1..Len(fs) : fs[p] /= ""
        /\ IF Rendered = None THEN fs = <<"None">>
           ELSE fs /= <<"None">> /\ fs /= <<>>

\* The empty set was rendered.
C14_Witness ==
    fop = "fmt" /\ fa = None /\ fs = <<"None">>

\* The place of a name in the order of fmt; the k-th flag of the order is
\* bit k-1 of the value.
NameIndex(name) == CHOOSE k \in 1..Len(DebugOrder) : DebugOrder[k][1] = name
IsFlagName(name) == \E k \in 1..Len(DebugOrder) : DebugOrder[k][1] = name
NamesOf(S) == {DebugOrder[b + 1][1] : b \in S}

\* C15: the rendering of a non-empty flag set is the names of the flags whose
\* bit is present, each once, in declaration order (CalcTangentSpace first,
\* GenBoundingBoxes last), with " | " between two names and nowhere else; the
\* rendering of a | b holds the names present in a or in b.
C15_NamesInOrderJoined ==
    (HasRendered /\ Rendered /= None) =>
        LET n == (Len(fs) + 1) \div 2
            name(q) == fs[2 * q - 1]
        IN  /\ DebugOrder[1][1] = "CalcTangentSpace"
            /\ DebugOrder[Len(DebugOrder)][1] = "GenBoundingBoxes"
            /\ \A k \in 1..Len(DebugOrder) : DebugOrder[k][2] = FromBits({k - 1})
            /\ Len(fs) = 2 * n - 1
            /\ \A q \in 1..(n - 1) : fs[2 * q] = Separator
            /\ \A q \in 1..n : IsFlagName(name(q))
            /\ \A q \in 1..(n - 1) : NameIndex(name(q)) < NameIndex(name(q + 1))
            /\ {name(q) : q \in 1..n} = NamesOf(Bits(Rendered))
            /\ fop = "bitor_fmt" =>
                   {name(q) : q \in 1..n} = NamesOf(Bits(fa)) \cup NamesOf(Bits(fb))

\* A union of the first and the last flag with one between was rendered.
C15_Witness ==
    /\ fop = "bitor_fmt"
    /\ Bits(fa) = {0, 31} /\ Bits(fb) = {18}
    /\ fs = <<"CalcTangentSpace", Separator, "GenUVCoords", Separator, "GenBoundingBoxes">>

\* Normals and UV coordinates of a mesh: absent, or one entry per point.
NeverPartial(m) ==
    /\ m.normals = NoneOpt \/ Len(m.normals[1]) = Len(m.points)
    /\ m.uvcoords = NoneOpt \/ Len(m.uvcoords[1]) = Len(m.points)

\* C16: in every mesh either conversion returns, normals and UV coordinates
\* are each absent or hold one entry per point; the conversions return both,
\* so normals, UV coordinates and points have the same length, in the merged
\* mesh of several submeshes too.
C16_NormalsAndUVsNeverPartial ==
    \A m \in 1..Len(Produced) :
        /\ NeverPartial(Produced[m])
        /\ Produced[m].normals /= NoneOpt /\ Produced[m].uvcoords /= NoneOpt
        /\ Len(Produced[m].normals[1]) = Len(Produced[m].points)
        /\ Len(Produced[m].uvcoords[1]) = Len(Produced[m].points)

\* The merged mesh of three submeshes with vertices is returned.
C16_Witness ==
    /\ op = ToMesh /\ pc = "returned" /\ result /= NoneOpt
    /\ Len(scene.mMeshes) = 3
    /\ \A k \in 1..3 : scene.mMeshes[k].mNumVertices > 0
    /\ Len(result[1].normals[1]) = 4 /\ Len(result[1].uvcoords[1]) = 4

\* C17: a returned mesh holds copies: from the release of the scene on, and
\* through any later change of the memory the scene was in, the points,
\* normals, UVs and faces collected, and the value returned, stay as they are.
C17_MeshesHoldCopies ==
    [][mem' \in {"freed", "reused"} =>
           /\ pts' = pts /\ normals' = normals /\ tpt' = tpt /\ faces' = faces
           /\ meshes' = meshes
           /\ pc = "returned" => result' = result]_vars

\* A mesh with points and a face has been returned, and the memory of its
\* scene has been put to another use.
C17_Witness ==
    /\ pc = "returned" /\ mem = "reused" /\ result /= NoneOpt
    /\ Len(Produced) > 0
    /\ Len(Produced[1].points) > 1 /\ Len(Produced[1].faces) > 0

\* C18: every read of the scene comes before the call of aiReleaseImport and
\* none after it: a read finds the scene live and not released; once released,
\* the conversion only returns, and what it returns holds no handle.
C18_ReadsBeforeRelease ==
    /\ [][derefs' /= derefs => (mem = "live" /\ releases = <<>> /\ releases' = <<>>)]_vars
    /\ [](releases /= <<>> => pc \in {"return", "returned"})
    /\ [](\A m \in 1..Len(Produced) :
              DOMAIN Produced[m] = {"points", "normals", "faces", "uvcoords"})

\* A scene with submeshes and a face was read through and then released.
C18_Witness ==
    /\ pc = "return" /\ releases = <<"scene">> /\ mem = "freed"
    /\ Len(scene.mMeshes) = 2 /\ SumFaces(scene.mMeshes) = 1 /\ derefs > 10

\* The vertices the call has copied so far.
RECURSIVE SumPoints(_)
SumPoints(ms) == IF ms = <<>> THEN 0 ELSE Len(ms[1].points) + SumPoints(Tail(ms))
CopiedVertices ==
    IF op = ToMesh THEN Len(pts)
    ELSE SumPoints(meshes) + (IF Len(scene.mMeshes) > Len(meshes) THEN Len(pts) ELSE 0)

\* C19: the conversions read UV channel 0 for every vertex without a check of
\* the channel: in a scene whose channel 0 is null every vertex copied was a
\* read of absent memory, and a call that got through a submesh with vertices
\* has made such a read.
C19_UVReadUnchecked ==
    (ptr = "scene" /\ scene.mTextureCoords0Null) =>
        /\ invalid >= CopiedVertices
        /\ pc = "crashed" => invalid > 0
        /\ (pc \in {"release", "return", "returned"}
              /\ VerticesBefore(scene.mMeshes, Len(scene.mMeshes)) > 0) => invalid > 0

\* A scene with normals but without channel 0: the UV of a vertex was read
\* from absent memory, and what was there went into the mesh.
C19_Witness ==
    /\ ptr = "scene" /\ scene.mTextureCoords0Null /\ ~scene.mNormalsNull
    /\ Len(scene.mMeshes) = 1 /\ scene.mMeshes[1].mNumVertices > 0
    /\ invalid > 0
    /\ Len(tpt) > 0 /\ tpt[1] = xy(GarbageVector)

\* The call died in the read of channel 0.
UVReadCrashed ==
    /\ ptr = "scene" /\ scene.mTextureCoords0Null /\ ~scene.mNormalsNull
    /\ pc = "crashed" /\ SumFaces(scene.mMeshes) = 0

\* C20: every face the conversions read, of every submesh the library can
\* return under Triangulate, has three indices, and no read of the index
\* positions 0, 1 and 2 goes past the index count of the face.
C20_FacesReadAreTriangles ==
    /\ \A jj \in 1..Len(scene.mMeshes) :
           \A ff \in 1..Len(scene.mMeshes[jj].mFaces) :
               /\ scene.mMeshes[jj].mFaces[ff].mNumIndices = 3
               /\ InvalidIndexReads(scene.mMeshes[jj].mFaces[ff]) = 0
    /\ (~scene.mNormalsNull /\ ~scene.mTextureCoords0Null) => invalid = 0

\* C21: the normals array of a submesh is read only when it is present, in
\* every submesh of a scene, those of point or line primitives included: in
\* a scene of triangles with UV channel 0 and without normals, no read is of
\* absent memory.
C21_NormalsReadOnlyIfPresent ==
    (ptr = "scene" /\ scene.mNormalsNull /\ ~scene.mTextureCoords0Null /\ SceneTriangles) =>
        invalid = 0

\* Past the import, the call has made it.
PastImport == pc \notin {"start", "panicked"}
Finished == pc \in {"returned", "crashed", "panicked"}

\* The path holds a byte 0.
HoldsNul(path) == \E k \in DOMAIN path : path[k] = 0

C26_OneNamePerBit ==
    fop = "fmt" =>
        /\ Len(DebugOrder) = 32
        /\ \A k \in 1..Len(DebugOrder) : DebugOrder[k][2] = FromBits({k - 1})
        /\ fa /= None => (Len(fs) + 1) \div 2 = Cardinality(Bits(fa))
        /\ fa /= None => Len(fs) = 2 * Cardinality(Bits(fa)) - 1
        /\ Debug(fb) = fs => fb = fa

\* A set of three flags, the first and the last among them, was rendered.
C26_Witness ==
    /\ fop = "fmt" /\ Bits(fa) = {0, 3, 31} /\ fb /= fa
    /\ fs = <<"CalcTangentSpace", Separator, "Triangulate", Separator, "GenBoundingBoxes">>

\* C27: a.set(None) is true for every flag set a, the empty one included;
\* None.set(b) is true only for b == None.
C27_SetOfNone ==
    fop = "set" =>
        /\ fb = None => ft
        /\ fa = None => (ft <=> fb = None)

\* The empty step was asked of a set of several flags.
C27_Witness ==
    fop = "set" /\ fb = None /\ Bits(fa) = {3, 18} /\ ft
C27_WitnessNoneAsked ==
    fop = "set" /\ fa = None /\ Bits(fb) = {3} /\ ~ft

\* C29: for a scene without submeshes aiImportFileToMesh returns Some mesh
\* with no points and no faces and with normals and uvcoords present and
\* empty, aiImportFileToMeshes returns Some of the empty sequence, and the
\* handle has been released exactly once.
C29_EmptyScene ==
    (pc = "returned" /\ ptr = "scene" /\ scene.mNumMeshes = 0) =>
        /\ result /= NoneOpt
        /\ op = ToMesh =>
               result = Some([points |-> <<>>, normals |-> Some(<<>>),
                              faces |-> <<>>, uvcoords |-> Some(<<>>)])
        /\ op = ToMeshes => result = Some(<<>>)
        /\ releases = <<ptr>>
        /\ derefs = 1

\* aiImportFileToMesh returned for a scene without submeshes.
C29_Witness ==
    /\ op = ToMesh /\ pc = "returned" /\ ptr = "scene" /\ scene.mNumMeshes = 0
    /\ result /= NoneOpt /\ Len(releases) = 1
C29_WitnessToMeshes ==
    /\ op = ToMeshes /\ pc = "returned" /\ ptr = "scene" /\ scene.mNumMeshes = 0
    /\ result = Some(<<>>)

\* C30: the external import is called only for a path without an interior NUL
\* byte; for a path with one the call panics before any foreign call: there
\* is no handle and no null, nothing is read, acquired or released, and
\* nothing is returned.
C30_PanicBeforeForeignCall ==
    /\ \A k \in 1..Len(imports) : ~HoldsNul(imports[k][1])
    /\ (HoldsNul(file) /\ pc /= "start") =>
        /\ pc = "panicked"
        /\ imports = <<>> /\ releases = <<>>
        /\ ptr = "unset" /\ mem = "none"
        /\ derefs = 0 /\ result = NoneOpt
    /\ pc = "panicked" => HoldsNul(file)

\* A call with a NUL byte in the path has panicked.
C30_Witness ==
    pc = "panicked" /\ HoldsNul(file) /\ imports = <<>>

\* The sum of all the vertex counts of the scene is below 2^32.
RECURSIVE ExactTotal(_)
ExactTotal(cs) == IF cs = <<>> THEN <<0, 0>> ELSE AddExact(ExactTotal(Tail(cs)), cs[1])
TotalFitsU32 == ExactTotal(vcounts)[1] < Pow2(16)

\* The offset is the sum of the vertex counts before the submesh.
OffsetIsSum == sum[1] < Pow2(16) /\ base32 = U32(sum[1], sum[2])

\* C22: in aiImportFileToMesh the offset starts at 0 and is, before submesh j,
\* the sum of the vertex counts of the submeshes before j; as u32, neither the
\* move of the offset nor an index plus the offset passes 2^32, for every
\* scene whose submeshes have at most AI_MAX_VERTICES vertices each.
C22_OffsetExactNoOverflow ==
    opc /= "idle" =>
        /\ sub = 0 => base32 = U32(0, 0)
        /\ opc /= "panicked" /\ ~wrapped
        /\ opc = "face" => OffsetIsSum

\* In a scene of fewer than 2^32 vertices the statement of C22 holds.
OffsetExact_TotalFits ==
    (opc /= "idle" /\ TotalFitsU32) =>
        /\ sub = 0 => base32 = U32(0, 0)
        /\ opc /= "panicked" /\ ~wrapped
        /\ opc = "face" => OffsetIsSum

\* Three submeshes of AI_MAX_VERTICES vertices: the offset has wrapped.
OffsetWrapped ==
    /\ vcounts = <<AI_MAX_VERTICES, AI_MAX_VERTICES, AI_MAX_VERTICES>>
    /\ sub = 3 /\ wrapped /\ base32 = U32(32767, 65533) /\ sum = <<98303, 65533>>

\* The indices the faces read so far refer to.
IndicesOf(fcs) == {fcs[k][n] : k \in 1..Len(fcs), n \in 1..3}
LeastOf(S) == CHOOSE x \in S : \A y \in S : x <= y
GreatestOf(S) == CHOOSE x \in S : \A y \in S : x >= y

\* C23: in aiImportFileToMeshes, after the face loop of a submesh with at
\* least one face, mn is the least and mx the greatest vertex index of the
\* faces of the submesh, for indices up to AI_MAX_VERTICES.
C23_FaceRangeIsMinMax ==
    (op = "face_range" /\ Len(faces) >= 1) =>
        /\ mn = LeastOf(IndicesOf(faces))
        /\ mx = GreatestOf(IndicesOf(faces))

\* With an index below 10000000 in a face of the submesh, the statement of
\* C23 holds; the maximum is right for all indices.
FaceRange_SmallIndex ==
    (op = "face_range" /\ Len(faces) >= 1) =>
        /\ mx = GreatestOf(IndicesOf(faces))
        /\ LeastOf(IndicesOf(faces)) <= MnInit => mn = LeastOf(IndicesOf(faces))
        /\ LeastOf(IndicesOf(faces)) > MnInit => mn = MnInit

\* mn and mx are not part of what aiImportFileToMeshes returns.
FaceRangeNotReturned ==
    \A m \in 1..Len(Produced) : DOMAIN Produced[m] = {"points", "normals", "faces", "uvcoords"}

\* C25: no caller reads scene contents after a failed import: load_object,
\* as the two conversions, reads through the pointer aiImportFile returned
\* only when it is not null.
C25_NoCallerReadsThroughNull ==
    ptr = "null" => (derefs = 0 /\ invalid = 0 /\ pc /= "crashed")

\* With a scene, load_object reads it through and releases it.
LoadObjectWalksScene ==
    (op = LoadObject /\ pc = "returned" /\ ptr = "scene") =>
        /\ Len(result[1].points) = VerticesBefore(scene.mMeshes, Len(scene.mMeshes))
        /\ Len(result[1].indices) = 3 * FacesBefore(scene.mMeshes, Len(scene.mMeshes))
        /\ releases = <<"scene">>

(***************************************************************************)
(* The merge of the meshes of aiImportFileToMeshes.                        *)
(***************************************************************************)
RECURSIVE MergedPoints(_)
MergedPoints(ms) == IF ms = <<>> THEN <<>> ELSE ms[1].points \o MergedPoints(Tail(ms))

ShiftedFaces(fcs, base) ==
    [k \in 1..Len(fcs) |-> MeshFace(fcs[k][1] + base, fcs[k][2] + base, fcs[k][3] + base)]

RECURSIVE MergedFaces(_, _)
MergedFaces(ms, base) ==
    IF ms = <<>> THEN <<>>
    ELSE ShiftedFaces(ms[1].faces, base) \o MergedFaces(Tail(ms), base + Len(ms[1].points))

RECURSIVE SumFaceCounts(_)
SumFaceCounts(ms) == IF ms = <<>> THEN 0 ELSE Len(ms[1].faces) + SumFaceCounts(Tail(ms))

\* Both conversions have returned a result for the one file.
BothReturned ==
    /\ op = ToMesh /\ pc = "returned" /\ result /= NoneOpt
    /\ Len(imports) = 2

IsMerge ==
    /\ result[1].points = MergedPoints(meshes)
    /\ result[1].faces = MergedFaces(meshes, 0)
    /\ Len(result[1].faces) = SumFaceCounts(meshes)

AllTriangles ==
    \A jj \in DOMAIN scene.mMeshes : \A ii \in DOMAIN scene.mMeshes[jj].mFaces :
        scene.mMeshes[jj].mFaces[ii].mNumIndices = 3

\* C28: for one and the same scene the result of aiImportFileToMesh is the
\* merge of the meshes of aiImportFileToMeshes: its points are their points
\* in order, its faces are their faces with the indices of mesh k raised by
\* the point count of the meshes before it, its face count is their sum.
C28_FlattenedIsMerge ==
    BothReturned => IsMerge

\* For a scene of triangles only it is.
FlattenedIsMerge_Triangles ==
    (BothReturned /\ AllTriangles) => IsMerge

\* Two submeshes with a triangle in the second, merged.
FlattenedIsMerge_Reached ==
    ~(/\ BothReturned /\ AllTriangles
      /\ Len(meshes) >= 2 /\ Len(meshes[1].points) > 0 /\ Len(meshes[2].faces) > 0)

====
